---- MODULE Spec2Model ----
(***************************************************************************)
(* The circuit breaker of src/src/circuit.ts (class CircuitBreaker) as a   *)
(* state machine.  One breaker instance wraps an asynchronous operation    *)
(* fn; call() and callOrDefault() run synchronously up to the invocation   *)
(* of fn and resume, as a later step, once fn's promise has settled, so    *)
(* several attempts can be in flight at once; the half-open timer is the   *)
(* only other source of steps.                                             *)
(*                                                                         *)
(* State names are those of the enum CircuitState (src/src/state.ts):      *)
(* "OPEN", "HALF_OPEN", "CLOSED".  Option names are those of               *)
(* CircuitOptions (src/README.md, lines 40-60, the module circuit.ts       *)
(* imports as "./options").                                                *)
(***************************************************************************)
EXTENDS Integers, Sequences, FiniteSets, Bags, TLC

(***************************************************************************)
(* Bounds of the model.                                                    *)
(***************************************************************************)
MaxThreshold == 2
MaxInflight == 2
MaxHalfOpenCalls == 2

(***************************************************************************)
(* Values.                                                                 *)
(***************************************************************************)
OPEN == "OPEN"
HALF_OPEN == "HALF_OPEN"
CLOSED == "CLOSED"
CircuitState == {OPEN, HALF_OPEN, CLOSED}

\* The one shared Error object every rejection hands back.
CLOSED_ERROR == "CLOSED_ERROR"

\* JavaScript's null (callOrDefault's default fallback, an unarmed handle).
NULL == "null"
NoTimer == 0

\* What the wrapped operation does when it is invoked: resolve with a
\* value, return a promise that rejects, or throw synchronously.  The
\* breaker learns which when the attempt resumes after its await.
Outcomes == {"ok", "reject", "throw"}

\* Values the injected random source returns for random(1, 100): one below
\* and one above the rate of 50; 100 is also what the default source gives.
Draws == {49, 100}

\* The random source is consulted in the HALF_OPEN case of call only; 0
\* stands for "no draw".
DrawsIn(s) == IF s = HALF_OPEN THEN Draws ELSE {0}

\* Values of the option halfOpenCallRate.
Rates == {0, 50, 100}

\* Argument lists of call(...args): the arguments meant for fn.
CallArgs == {<<"a">>}

\* Argument lists of callOrDefault(...args): fn's arguments followed by the
\* fallback; the empty list is a call without any argument.
CallOrDefaultArgs == {<<>>, <<"a", "DEF">>}

VARIABLES
  state,                  \* this.state
  options,                \* this.options
  metrics,                \* this.metrics
  halfOpenTimeoutHandle,  \* this.halfOpenTimeoutHandle (NoTimer for null)
  timers,                 \* the timeouts pending in the event loop
  inflight,               \* attempts suspended at `await this.safeCall(args)`
  emitted,                \* the "state-change" events emitted by the last step
  lastOp,                 \* the kind of the last step
  last                    \* the attempt the last step started or finished

vars == <<state, options, metrics, halfOpenTimeoutHandle, timers, inflight,
          emitted, lastOp, last>>

(***************************************************************************)
(* The breaker's own fields as one record, so that the methods are         *)
(* operators from records to records.                                      *)
(***************************************************************************)
This ==
  [state |-> state, metrics |-> metrics, handle |-> halfOpenTimeoutHandle,
   timers |-> timers, emitted |-> <<>>]

isOpen(t) == t.state = OPEN
isHalfOpen(t) == t.state = HALF_OPEN
isClosed(t) == t.state = CLOSED

shouldOpen(t) == t.metrics.consecutiveOkCalls >= options.openThreshold
shouldClose(t) == t.metrics.consecutiveFailedCalls >= options.closeThreshold

\* shouldMakeHalfOpenCall with the comparison the other way round.
shouldMakeHalfOpenCall_Below(draw) == draw <= options.halfOpenCallRate

shouldMakeHalfOpenCall(draw) == draw >= options.halfOpenCallRate

incrementFailed(t) ==
  [t EXCEPT !.metrics.consecutiveFailedCalls = @ + 1,
            !.metrics.consecutiveOkCalls = 0]

incrementSuccessful(t) ==
  [t EXCEPT !.metrics.consecutiveFailedCalls = 0,
            !.metrics.consecutiveOkCalls = @ + 1]

resetMetrics(t) ==
  [t EXCEPT !.metrics.consecutiveFailedCalls = 0,
            !.metrics.consecutiveOkCalls = 0]

\* setTimeout hands out a handle no pending timeout has.
NewTimer(pending) ==
  CHOOSE n \in 1..(Cardinality(pending) + 1) :
    n \notin pending /\ \A m \in 1..(n - 1) : m \in pending

\* startClosedTimer that clears the pending timeout and sets no new one.
startClosedTimer_NoTimeout(t) ==
  [t EXCEPT !.timers = t.timers \ {t.handle}, !.handle = NoTimer]

\* startClosedTimer without its clearTimeout.
startClosedTimer_NoClear(t) ==
  LET h == NewTimer(t.timers)
  IN [t EXCEPT !.timers = t.timers \cup {h}, !.handle = h]

startClosedTimer(t) ==
  LET cleared == t.timers \ {t.handle}
      h == NewTimer(cleared)
  IN [t EXCEPT !.timers = cleared \cup {h}, !.handle = h]

\* setState without its call to resetMetrics.
setState_NoReset(t, to) ==
  LET from == t.state
      t1 == [t EXCEPT !.state = to]
      t2 == IF isClosed(t1) THEN startClosedTimer(t1) ELSE t1
  IN [t2 EXCEPT !.emitted = Append(@, [from |-> from, to |-> to])]

setState(t, to) ==
  LET from == t.state
      t1 == [t EXCEPT !.state = to]
      t2 == IF isClosed(t1) THEN startClosedTimer(t1) ELSE t1
      t3 == resetMetrics(t2)
  IN [t3 EXCEPT !.emitted = Append(@, [from |-> from, to |-> to])]

\* new CallResponse(): ok until safeCall's catch block says otherwise.
CallResponse == [ok |-> TRUE, response |-> "undefined", error |-> "undefined"]

\* safeCall with the call to fn made outside the try block: a synchronous
\* throw of fn escapes.
safeCall_NoCatch(outcome) ==
  CASE outcome = "ok" ->
         [kind |-> "return", resp |-> [CallResponse EXCEPT !.response = "VALUE"]]
    [] outcome = "reject" ->
         [kind |-> "return",
          resp |-> [CallResponse EXCEPT !.ok = FALSE, !.error = "OP_ERROR"]]
    [] outcome = "throw" ->
         [kind |-> "throw",
          resp |-> [CallResponse EXCEPT !.ok = FALSE, !.error = "OP_ERROR"]]

\* safeCall(args): the operation's value, or its error whether thrown or
\* rejected; "kind" tells whether safeCall itself returns or throws.
safeCall(outcome) ==
  IF outcome = "ok"
  THEN [kind |-> "return", resp |-> [CallResponse EXCEPT !.response = "VALUE"]]
  ELSE [kind |-> "return",
        resp |-> [CallResponse EXCEPT !.ok = FALSE, !.error = "OP_ERROR"]]

Return(t, v) == [this |-> t, result |-> [kind |-> "return", val |-> v]]
Throw(t, e) == [this |-> t, result |-> [kind |-> "throw", val |-> e]]

\* attemptCall handing back the operation's response, not CLOSED_ERROR,
\* when the failure reaches the threshold.
attemptCall_ReturnsResponse(t, outcome) ==
  LET r == safeCall(outcome)
      callResponse == r.resp
  IN IF r.kind = "throw" THEN Throw(t, r.resp.error)
     ELSE IF ~callResponse.ok
     THEN LET t1 == incrementFailed(t)
          IN IF shouldClose(t1)
             THEN Return(setState(t1, HALF_OPEN), callResponse.response)
             ELSE Return(t1, callResponse.response)
     ELSE Return(t, callResponse.response)

\* attemptCall, from the point where `await this.safeCall(args)` resumes.
attemptCall(t, outcome) ==
  LET r == safeCall(outcome)
      callResponse == r.resp
  IN IF r.kind = "throw" THEN Throw(t, r.resp.error)
     ELSE IF ~callResponse.ok
     THEN LET t1 == incrementFailed(t)
          IN IF shouldClose(t1)
             THEN Return(setState(t1, HALF_OPEN), CLOSED_ERROR)
             ELSE Return(t1, callResponse.response)
     ELSE Return(t, callResponse.response)

\* attemptHalfOpenCall, from the point where the await resumes.
attemptHalfOpenCall(t, outcome) ==
  LET r == safeCall(outcome)
      callResponse == r.resp
  IN IF r.kind = "throw" THEN Throw(t, r.resp.error)
     ELSE IF ~callResponse.ok
     THEN LET t1 == incrementFailed(t)
          IN IF shouldClose(t1)
             THEN Return(setState(t1, CLOSED), CLOSED_ERROR)
             ELSE Return(t1, callResponse.response)
     ELSE LET t1 == incrementSuccessful(t)
          IN IF shouldOpen(t1)
             THEN Return(setState(t1, OPEN), callResponse.response)
             ELSE Return(t1, callResponse.response)

(***************************************************************************)
(* Attempts.  An attempt record says how the caller entered, in which      *)
(* state, what fn was (or would have been) handed and what fn did: for an  *)
(* attempt that is answered without invoking fn, what fn would have done;  *)
(* for a suspended one, "none" until it resumes.                           *)
(***************************************************************************)
Pending == [kind |-> "pending", val |-> "undefined"]

NoAttempt ==
  [entry |-> "none", from |-> OPEN, draw |-> 0, invoked |-> FALSE,
   spread |-> TRUE, fnArgs |-> <<>>, def |-> NULL, outcome |-> "none",
   result |-> Pending]

\* The part of call(...args) that runs before the first await.  `spread`
\* is TRUE when fn gets the list as its arguments and FALSE when it gets
\* the list as one array argument.  Yields the path taken: "rejected",
\* "attemptCall" or "attemptHalfOpenCall".
\* call that lets every HALF_OPEN attempt through, whatever the draw.
call_NoSampling(t, draw) ==
  CASE t.state = CLOSED -> "rejected"
    [] t.state = HALF_OPEN -> "attemptHalfOpenCall"
    [] t.state = OPEN -> "attemptCall"

call(t, draw) ==
  CASE t.state = CLOSED -> "rejected"
    [] t.state = HALF_OPEN ->
         IF shouldMakeHalfOpenCall(draw) THEN "attemptHalfOpenCall"
         ELSE "rejected"
    [] t.state = OPEN -> "attemptCall"

\* callOrDefault(...args): the fallback is the last argument, null when
\* there is none; a CLOSED breaker answers with it, any other hands the
\* remaining arguments, as one array, to call.
popDefault(args) == IF Len(args) >= 1 THEN args[Len(args)] ELSE NULL
popRest(args) == IF Len(args) >= 1 THEN SubSeq(args, 1, Len(args) - 1) ELSE args

\* callOrDefault answering with the fallback while HALF_OPEN as well,
\* without consulting call.
callOrDefault_DefaultWhenHalfOpen(t, draw) ==
  IF isClosed(t) \/ isHalfOpen(t) THEN "default" ELSE call(t, draw)

callOrDefault(t, draw) ==
  IF isClosed(t) THEN "default" ELSE call(t, draw)

\* What fn is applied to (this.fn.apply(null, args) in safeCall): call's
\* rest parameter holds the list it was called with, which is fn's own
\* arguments when the caller used call and a single array when
\* callOrDefault passed its array on.
fnApplied(a) == IF a.spread THEN a.fnArgs ELSE <<a.fnArgs>>

\* One caller-side step: the attempt is answered at once (rejected, or the
\* fallback) or fn is invoked and the attempt suspends.
Begin(attempt, path) ==
  LET a == attempt
      invoked == [a EXCEPT !.invoked = TRUE, !.outcome = "none"]
      suspended == [path |-> path, attempt |-> [invoked EXCEPT !.draw = 0]]
  IN
  /\ lastOp' = "call"
  /\ emitted' = <<>>
  /\ UNCHANGED <<state, options, halfOpenTimeoutHandle, timers>>
  /\ CASE path = "rejected" ->
            /\ last' = [a EXCEPT !.result = [kind |-> "return", val |-> CLOSED_ERROR]]
            /\ UNCHANGED <<metrics, inflight>>
       [] path = "default" ->
            /\ last' = [a EXCEPT !.result = [kind |-> "return", val |-> a.def]]
            /\ UNCHANGED <<metrics, inflight>>
       [] path = "attemptCall" ->
            /\ BagCardinality(inflight) < MaxInflight
            /\ last' = invoked
            /\ inflight' = inflight (+) SetToBag({suspended})
            /\ UNCHANGED metrics
       [] path = "attemptHalfOpenCall" ->
            /\ BagCardinality(inflight) < MaxInflight
            /\ metrics.halfOpenCalls < MaxHalfOpenCalls
            /\ last' = invoked
            /\ inflight' = inflight (+) SetToBag({suspended})
            /\ metrics' = [metrics EXCEPT !.halfOpenCalls = @ + 1]

\* `would` is what fn would do if this attempt is not let through to it.
Call(args, draw, would) ==
  Begin([NoAttempt EXCEPT !.entry = "call", !.from = state, !.draw = draw,
                          !.spread = TRUE, !.fnArgs = args,
                          !.outcome = would],
        call(This, draw))

CallOrDefault(args, draw, would) ==
  Begin([NoAttempt EXCEPT !.entry = "callOrDefault", !.from = state,
                          !.draw = draw, !.spread = FALSE,
                          !.fnArgs = popRest(args), !.def = popDefault(args),
                          !.outcome = would],
        callOrDefault(This, draw))

\* A resumption that, when the operation failed, invokes it once more and
\* suspends again instead of answering.
Complete_Retries(a, outcome) ==
  LET r == IF a.path = "attemptCall"
           THEN attemptCall(This, outcome)
           ELSE attemptHalfOpenCall(This, outcome)
  IN
  /\ inflight' = IF outcome = "ok" THEN inflight (-) SetToBag({a}) ELSE inflight
  /\ state' = r.this.state
  /\ metrics' = r.this.metrics
  /\ halfOpenTimeoutHandle' = r.this.handle
  /\ timers' = r.this.timers
  /\ emitted' = r.this.emitted
  /\ lastOp' = "done"
  /\ last' = [a.attempt EXCEPT !.outcome = outcome, !.result = r.result]
  /\ UNCHANGED options

\* fn's promise has settled: the suspended attempt resumes and runs to its
\* end.
Complete(a, outcome) ==
  LET r == IF a.path = "attemptCall"
           THEN attemptCall(This, outcome)
           ELSE attemptHalfOpenCall(This, outcome)
  IN
  /\ inflight' = inflight (-) SetToBag({a})
  /\ state' = r.this.state
  /\ metrics' = r.this.metrics
  /\ halfOpenTimeoutHandle' = r.this.handle
  /\ timers' = r.this.timers
  /\ emitted' = r.this.emitted
  /\ lastOp' = "done"
  /\ last' = [a.attempt EXCEPT !.outcome = outcome, !.result = r.result]
  /\ UNCHANGED options

\* The callback startClosedTimer schedules.
TimerFire(h) ==
  LET t == setState(This, HALF_OPEN)
  IN
  /\ state' = t.state
  /\ metrics' = t.metrics
  /\ halfOpenTimeoutHandle' = NoTimer
  /\ timers' = t.timers \ {h}
  /\ emitted' = t.emitted
  /\ lastOp' = "timer"
  /\ last' = NoAttempt
  /\ UNCHANGED <<options, inflight>>

\* new CircuitOptions(): what the constructor uses for the options the
\* caller leaves out (halfOpenTimeout and random are not modelled as
\* options: the timer fires at any time, and the draw is an input).
defaultCircuitOptions ==
  [closeThreshold |-> 1, openThreshold |-> 1, halfOpenCallRate |-> 50,
   initialState |-> OPEN]

\* The constructor: the field initialisers, then setState(initialState).
Fields ==
  [state |-> OPEN,
   metrics |-> [consecutiveFailedCalls |-> 0, consecutiveOkCalls |-> 0,
                halfOpenCalls |-> 0],
   handle |-> NoTimer, timers |-> {}, emitted |-> <<>>]

Init ==
  /\ options \in [closeThreshold : 1..MaxThreshold,
                  openThreshold : 1..MaxThreshold,
                  halfOpenCallRate : Rates,
                  initialState : CircuitState]
  /\ LET t == setState(Fields, options.initialState)
     IN /\ state = t.state
        /\ metrics = t.metrics
        /\ halfOpenTimeoutHandle = t.handle
        /\ timers = t.timers
        /\ emitted = t.emitted
  /\ inflight = EmptyBag
  /\ lastOp = "new"
  /\ last = NoAttempt

Next ==
  \/ \E args \in CallArgs, draw \in DrawsIn(state), would \in Outcomes :
       Call(args, draw, would)
  \/ \E args \in CallOrDefaultArgs, draw \in DrawsIn(state), would \in Outcomes :
       CallOrDefault(args, draw, would)
  \/ \E a \in BagToSet(inflight), outcome \in Outcomes : Complete(a, outcome)
  \/ \E h \in timers : TimerFire(h)

Spec == Init /\ [][Next]_vars

\* The event loop runs a timeout that is due, and the promise of an
\* operation that was invoked settles: no suspended attempt waits for ever.
LiveSpec ==
  /\ Spec
  /\ WF_vars(\E h \in timers : TimerFire(h))
  /\ WF_vars(\E a \in BagToSet(inflight), outcome \in Outcomes :
               Complete(a, outcome))

(***************************************************************************)
(* Vocabulary of the properties.  The last step answered an attempt when   *)
(* it was a call that returned at once or the resumption of a suspended    *)
(* one; an attempt is rejected when it ends without fn having been         *)
(* invoked.  For an attempt that is rejected, last.outcome is what the     *)
(* operation would have done for it.                                       *)
(***************************************************************************)
Answered == lastOp \in {"call", "done"} /\ last.result.kind # "pending"
Attempted == lastOp \in {"call", "done"}

\* C1: in every reachable state where the breaker is OPEN, a call attempt
\* (call or callOrDefault) never invokes the wrapped operation.
C1_OpenNeverInvokes ==
  (Attempted /\ last.from = OPEN) => ~last.invoked

\* C2: for attempts made while CLOSED, the failing attempt with which
\* consecutiveFailedCalls reaches openThreshold moves the breaker to OPEN,
\* with exactly one CLOSED -> OPEN notification (after which calls are
\* rejected until the timer fires).
C2_ClosedTripsToOpenAtOpenThreshold ==
  [][(/\ Answered'
      /\ state = CLOSED
      /\ last'.from = CLOSED
      /\ last'.outcome # "ok"
      /\ metrics.consecutiveFailedCalls + 1 >= options.openThreshold)
     => (/\ state' = OPEN
         /\ emitted' = <<[from |-> CLOSED, to |-> OPEN]>>)]_vars

\* C3: while CLOSED every successful attempt leaves consecutiveFailedCalls
\* at 0, and the breaker goes from CLOSED to OPEN only on a failed attempt
\* that brings consecutiveFailedCalls to openThreshold.
C3_ClosedSuccessClearsFailures ==
  [][/\ (/\ Answered'
         /\ state = CLOSED
         /\ last'.from = CLOSED
         /\ last'.outcome = "ok")
        => metrics'.consecutiveFailedCalls = 0
     /\ (state = CLOSED /\ state' = OPEN)
        => (/\ lastOp' = "done"
            /\ last'.outcome # "ok"
            /\ metrics.consecutiveFailedCalls + 1 >= options.openThreshold)]_vars

\* C4: an OPEN breaker stays OPEN until the recovery timer fires, and the
\* timer's firing makes it HALF_OPEN; no call moves it out of OPEN.
C4_OpenLeftOnlyByTimer ==
  [][(state = OPEN /\ state' # OPEN)
     => (lastOp' = "timer" /\ state' = HALF_OPEN)]_vars

\* C5: while HALF_OPEN an admitted attempt that succeeds moves the breaker
\* to CLOSED exactly when it is the closeThreshold-th consecutive success,
\* and leaves it HALF_OPEN before that.
C5_HalfOpenClosesAtCloseThreshold ==
  [][(/\ lastOp' = "done"
      /\ state = HALF_OPEN
      /\ last'.from = HALF_OPEN
      /\ last'.outcome = "ok")
     => state' = (IF metrics.consecutiveOkCalls + 1 >= options.closeThreshold
                  THEN CLOSED ELSE HALF_OPEN)]_vars

\* C6: while HALF_OPEN an admitted attempt that fails either leaves the
\* breaker HALF_OPEN (threshold not reached) or moves it to OPEN (threshold
\* reached); it never moves it anywhere else.
C6_HalfOpenFailureReopens ==
  [][(/\ lastOp' = "done"
      /\ state = HALF_OPEN
      /\ last'.from = HALF_OPEN
      /\ last'.outcome # "ok")
     => state' \in {HALF_OPEN, OPEN}]_vars

\* C7: a state-change notification never has from = to (setState applied
\* with the current state emits nothing).
C7_NoNotificationForNoOp ==
  \A i \in 1..Len(emitted) : emitted[i].from # emitted[i].to

\* C8: callOrDefault answers with the operation's value when the attempt
\* was admitted and the operation succeeded, and with the caller's fallback
\* in every other case (rejected, or the operation failed).
C8_CallOrDefaultFallback ==
  (Answered /\ last.entry = "callOrDefault")
  => last.result = (IF last.invoked /\ last.outcome = "ok"
                    THEN [kind |-> "return", val |-> "VALUE"]
                    ELSE [kind |-> "return", val |-> last.def])

\* C9: callOrDefault never throws, in any state and whatever the operation
\* does (resolve, reject, or throw synchronously).
C9_CallOrDefaultNeverThrows ==
  (Attempted /\ last.entry = "callOrDefault") => last.result.kind # "throw"

C9_Witness ==
  /\ lastOp = "done"
  /\ last.entry = "callOrDefault"
  /\ last.invoked
  /\ last.outcome = "throw"
  /\ last.result.kind = "return"

\* C10: on call() a rejection reaches the caller as a failure (a thrown
\* rejection error, not a returned value), a failure of the operation is
\* never reported with the rejection error, and a rejection is never
\* reported with the operation's error.
C10_RejectionIsDistinctFailure ==
  (Answered /\ last.entry = "call")
  => /\ ~last.invoked
        => last.result = [kind |-> "throw", val |-> CLOSED_ERROR]
     /\ (last.invoked /\ last.outcome # "ok")
        => last.result.val # CLOSED_ERROR

\* C11: on call() an attempt that is rejected because it was not sampled in
\* while HALF_OPEN is reported with another error than CLOSED_ERROR, the
\* error of a rejection by a breaker that lets nothing through; the two
\* kinds of rejection never hand back the same error.
C11_HalfOpenRejectionHasOwnError ==
  (/\ Answered
   /\ last.entry = "call"
   /\ ~last.invoked
   /\ last.from = HALF_OPEN)
  => last.result.val # CLOSED_ERROR

\* C12: on call() an admitted attempt whose operation fails ends with the
\* operation's own error thrown to the caller; the error is never dropped
\* or replaced by a returned value.
C12_OperationErrorReachesCaller ==
  (/\ lastOp = "done"
   /\ last.entry = "call"
   /\ last.invoked
   /\ last.outcome # "ok")
  => last.result = [kind |-> "throw", val |-> "OP_ERROR"]

\* C13: while HALF_OPEN, whatever the draw, every attempt is admitted when
\* halfOpenCallRate is 100 and no attempt is admitted when it is 0.
C13_RateExtremes ==
  (Attempted /\ last.from = HALF_OPEN)
  => /\ options.halfOpenCallRate = 100 => last.invoked
     /\ options.halfOpenCallRate = 0 => ~last.invoked

\* C14: in every reachable state a recovery timer is pending exactly when
\* the breaker is OPEN: one pending timer while OPEN, none while CLOSED or
\* HALF_OPEN.
C14_TimerPendingIffOpen ==
  /\ (state = OPEN) <=> (timers # {})
  /\ Cardinality(timers) <= 1

\* C15: every step that changes the state leaves consecutiveFailedCalls
\* and consecutiveOkCalls both at 0: the counters are cleared in the same
\* step as the state changes.
C15_TransitionClearsCounters ==
  [][state' # state
     => /\ metrics'.consecutiveFailedCalls = 0
        /\ metrics'.consecutiveOkCalls = 0]_vars

\* A failing attempt has just moved the breaker to another state with a
\* threshold of 2: the counter it brought to 2 reads 0 again.
C15_Witness ==
  /\ lastOp = "done"
  /\ last.outcome # "ok"
  /\ options.closeThreshold = 2
  /\ Len(emitted) = 1
  /\ emitted[1].from # emitted[1].to
  /\ state = emitted[1].to
  /\ metrics.consecutiveFailedCalls = 0
  /\ metrics.consecutiveOkCalls = 0

\* C16: when the failure of one attempt has just moved the breaker out of a
\* state (the threshold was reached), the next step does not act on the
\* state as it was before: an attempt started now is let through only if
\* the new state lets it through, and another attempt that was let through
\* in the old state and resumes now applies no further state change.
C16_NoActionOnStaleState ==
  [][(/\ lastOp = "done"
      /\ last.outcome # "ok"
      /\ Len(emitted) = 1
      /\ emitted[1].from # emitted[1].to)
     => /\ (lastOp' = "call" /\ last'.invoked)
           => call(This, last'.draw) # "rejected"
        /\ (lastOp' = "done" /\ last'.from = emitted[1].from)
           => (state' = state /\ emitted' = <<>>)]_vars

\* C17: the timer callback, when it runs while the breaker is not OPEN,
\* changes nothing: the state and the counters stay as they were and no
\* state-change is emitted.
C17_StaleTimerIsNoOp ==
  [][(lastOp' = "timer" /\ state # OPEN)
     => /\ state' = state
        /\ metrics' = metrics
        /\ emitted' = <<>>]_vars

Admitting == \E draw \in DrawsIn(state) : call(This, draw) # "rejected"

\* C19: the breaker never gets stuck: a call that is not let through is
\* answered at once, suspended attempts resume and end with an answer,
\* and whatever failures and rejections came before, the breaker is
\* again and again in a state in which calls are let through.
C19_NeverStuck ==
  /\ [](Attempted
        => ((last.result.kind = "pending")
            <=> (lastOp = "call" /\ last.invoked)))
  /\ (inflight # EmptyBag) ~> (lastOp = "done")
  /\ []<>Admitting

\* The breaker is CLOSED after a failed attempt, with its timer pending and
\* another attempt still suspended.
C19_Witness ==
  /\ state = CLOSED
  /\ ~Admitting
  /\ lastOp = "done"
  /\ last.outcome # "ok"
  /\ timers # {}
  /\ inflight # EmptyBag

\* C20: a breaker constructed without options has every threshold at 1 and
\* halfOpenCallRate at 50 and starts CLOSED; its first call invokes the
\* operation, and one failure of the operation, with the breaker still in
\* its initial state, moves it to OPEN.
C20_DefaultBreaker ==
  [][options = defaultCircuitOptions
     => /\ options.openThreshold = 1
        /\ options.closeThreshold = 1
        /\ options.halfOpenCallRate = 50
        /\ lastOp = "new" => state = CLOSED
        /\ (lastOp = "new" /\ lastOp' = "call") => last'.invoked
        /\ (/\ state = options.initialState
            /\ lastOp' = "done"
            /\ last'.from = options.initialState
            /\ last'.outcome # "ok")
           => state' = OPEN]_vars

\* C21: with an operation that fails, every call made while CLOSED invokes
\* the operation; a failure that leaves consecutiveFailedCalls below
\* openThreshold keeps the breaker CLOSED, raises the counter by one and
\* throws the operation's error to the caller; the failure that reaches
\* openThreshold moves the breaker to OPEN and is reported with the
\* rejection error.
C21_NthFailureTrips ==
  [][/\ (lastOp' = "call" /\ state = CLOSED) => last'.invoked
     /\ (/\ lastOp' = "done"
         /\ state = CLOSED
         /\ last'.from = CLOSED
         /\ last'.outcome # "ok")
        => IF metrics.consecutiveFailedCalls + 1 < options.openThreshold
           THEN /\ state' = CLOSED
                /\ metrics'.consecutiveFailedCalls
                     = metrics.consecutiveFailedCalls + 1
                /\ last'.result = [kind |-> "throw", val |-> "OP_ERROR"]
           ELSE /\ state' = OPEN
                /\ last'.result.val = CLOSED_ERROR]_vars

\* C22: a HALF_OPEN attempt whose draw does not pass the rate is answered
\* at once without the operation being invoked, and leaves the state, the
\* counters, the timer and its handle as they were, with no notification.
C22_UnsampledLeavesAllUnchanged ==
  [][(/\ lastOp' = "call"
      /\ state = HALF_OPEN
      /\ ~shouldMakeHalfOpenCall(last'.draw))
     => /\ ~last'.invoked
        /\ last'.result.kind # "pending"
        /\ state' = state
        /\ metrics' = metrics
        /\ timers' = timers
        /\ halfOpenTimeoutHandle' = halfOpenTimeoutHandle
        /\ inflight' = inflight
        /\ emitted' = <<>>]_vars

\* A HALF_OPEN attempt has just been turned away while a failure was
\* already counted and another attempt was suspended.
C22_Witness ==
  /\ lastOp = "call"
  /\ last.from = HALF_OPEN
  /\ state = HALF_OPEN
  /\ ~last.invoked
  /\ ~shouldMakeHalfOpenCall(last.draw)
  /\ metrics.consecutiveFailedCalls = 1
  /\ inflight # EmptyBag

\* C23: a call made while OPEN is rejected at once, without the operation
\* being invoked, and leaves the state, the counters and the pending timer
\* as they were: the timer is neither restarted nor cancelled.
C23_OpenRejectionLeavesAllUnchanged ==
  [][(lastOp' = "call" /\ state = OPEN)
     => /\ ~last'.invoked
        /\ last'.result.kind # "pending"
        /\ state' = state
        /\ metrics' = metrics
        /\ timers' = timers
        /\ halfOpenTimeoutHandle' = halfOpenTimeoutHandle
        /\ emitted' = <<>>]_vars

\* C24: an admitted attempt whose outcome leaves the counter it raises
\* below its threshold (a failure below openThreshold while CLOSED, a
\* success below closeThreshold while HALF_OPEN) changes counters only: the
\* state stays and no state-change is emitted.
C24_BelowThresholdKeepsState ==
  [][(/\ lastOp' = "done"
      /\ last'.from = state
      /\ \/ /\ state = CLOSED
            /\ last'.outcome # "ok"
            /\ metrics.consecutiveFailedCalls + 1 < options.openThreshold
         \/ /\ state = HALF_OPEN
            /\ last'.outcome = "ok"
            /\ metrics.consecutiveOkCalls + 1 < options.closeThreshold)
     => (state' = state /\ emitted' = <<>>)]_vars

\* C25: an attempt that is let through invokes the operation exactly once:
\* the call suspends on one invocation, and its resumption answers without
\* invoking again; an attempt that is turned away invokes nothing.
C25_InvokedExactlyOnce ==
  [][/\ lastOp' = "call"
        => IF last'.result.kind = "pending"
           THEN /\ last'.invoked
                /\ BagCardinality(inflight') = BagCardinality(inflight) + 1
           ELSE /\ ~last'.invoked
                /\ inflight' = inflight
     /\ lastOp' = "done"
        => /\ last'.invoked
           /\ last'.result.kind # "pending"
           /\ BagCardinality(inflight') = BagCardinality(inflight) - 1
     /\ lastOp' = "timer" => inflight' = inflight]_vars

\* An attempt whose operation failed has been answered and nothing is
\* left suspended.
C25_Witness ==
  /\ lastOp = "done"
  /\ last.invoked
  /\ last.outcome # "ok"
  /\ last.result.kind # "pending"
  /\ inflight = EmptyBag

\* C28: every change of state is CLOSED to OPEN, OPEN to HALF_OPEN,
\* HALF_OPEN to OPEN or HALF_OPEN to CLOSED; in particular never CLOSED to
\* HALF_OPEN and never OPEN to CLOSED.
C28_OnlyDocumentedEdges ==
  [][state' # state
     => <<state, state'>> \in {<<CLOSED, OPEN>>, <<OPEN, HALF_OPEN>>,
                               <<HALF_OPEN, OPEN>>, <<HALF_OPEN, CLOSED>>}]_vars

C30_OneDrawMonotonicAdmission ==
  /\ lastOp = "call"
     => IF last.from = HALF_OPEN
        THEN /\ last.draw \in 1..100
             /\ last.invoked <=> shouldMakeHalfOpenCall(last.draw)
        ELSE last.draw = 0
  /\ options.halfOpenCallRate = 50
     => (~shouldMakeHalfOpenCall(49) /\ shouldMakeHalfOpenCall(51))
  /\ \A d \in 1..99 :
       shouldMakeHalfOpenCall(d) => shouldMakeHalfOpenCall(d + 1)

\* With halfOpenCallRate 50 a HALF_OPEN call that drew 49 has been turned
\* away.
C30_Witness ==
  /\ lastOp = "call"
  /\ last.from = HALF_OPEN
  /\ options.halfOpenCallRate = 50
  /\ last.draw = 49
  /\ ~last.invoked

\* C31: at most one timer is pending at any time, and it is the one the
\* handle names: arming the timer cancels the one that was pending.
C31_AtMostOneTimer ==
  /\ Cardinality(timers) <= 1
  /\ timers # {} => timers = {halfOpenTimeoutHandle}

\* The timer has been armed again while one was pending: the breaker was
\* set CLOSED when it was CLOSED already.
C31_Witness ==
  /\ lastOp = "done"
  /\ emitted = <<[from |-> CLOSED, to |-> CLOSED]>>
  /\ Cardinality(timers) = 1

\* C32: every step that changes the state leaves halfOpenCalls at 0, as it
\* leaves the two consecutive counters.
C32_TransitionClearsHalfOpenCalls ==
  [][state' # state => metrics'.halfOpenCalls = 0]_vars

\* C33: an attempt that resumes when the breaker is no longer in the state
\* in which it was let through changes neither the state nor the timer and
\* emits no state-change.
C33_LateCompletionChangesNothing ==
  [][(lastOp' = "done" /\ last'.from # state)
     => /\ state' = state
        /\ timers' = timers
        /\ halfOpenTimeoutHandle' = halfOpenTimeoutHandle
        /\ emitted' = <<>>]_vars

\* C34: callOrDefault takes its last argument as the fallback and, when the
\* attempt is let through, the operation is applied to the remaining
\* arguments, in order, as call would apply it.
C34_CallOrDefaultPassesArguments ==
  (/\ Attempted
   /\ last.entry = "callOrDefault"
   /\ last.invoked)
  => fnApplied(last) = last.fnArgs

\* C35: in every reachable state the consecutive counters are below the
\* thresholds of the current state: consecutiveFailedCalls below
\* openThreshold while CLOSED, consecutiveOkCalls below closeThreshold
\* while HALF_OPEN, and both counters 0 while OPEN.
C35_CountersBelowThresholds ==
  /\ state = CLOSED
     => metrics.consecutiveFailedCalls < options.openThreshold
  /\ state = HALF_OPEN
     => metrics.consecutiveOkCalls < options.closeThreshold
  /\ state = OPEN
     => /\ metrics.consecutiveFailedCalls = 0
        /\ metrics.consecutiveOkCalls = 0

\* C36: at most one of consecutiveFailedCalls and consecutiveOkCalls is
\* nonzero in any state; an attempt that resumes with a failure leaves
\* consecutiveOkCalls at 0 and one that resumes with a success leaves
\* consecutiveFailedCalls at 0, whatever the state.
C36_OneCounterNonzero ==
  [][/\ (metrics'.consecutiveFailedCalls = 0
         \/ metrics'.consecutiveOkCalls = 0)
     /\ (lastOp' = "done" /\ last'.outcome # "ok")
        => metrics'.consecutiveOkCalls = 0
     /\ (lastOp' = "done" /\ last'.outcome = "ok")
        => metrics'.consecutiveFailedCalls = 0]_vars

====
